---- MODULE Spec2Model ----
(***************************************************************************)
(* Model of birth_places.py: the batch orchestrator (load_birthplaces),    *)
(* the location catalog loader (load_locations_df), the pagination driver  *)
(* (load_location_df), save_data, and the page scraper                     *)
(* (scrape_birthplaces with clean_dataframe).                              *)
(*                                                                         *)
(* Spec / FairSpec run load_birthplaces from a reference file drawn from a *)
(* bounded set.  ScrapeSpec runs one invocation of scrape_birthplaces on a *)
(* response drawn from a bounded set.                                      *)
(***************************************************************************)
EXTENDS Integers, Sequences, FiniteSets, TLC

VARIABLES
    \* ---- load_birthplaces / load_locations_df / load_location_df ----
    csv,           \* content of /data/birthlocations.csv (the environment)
    pc,            \* position of the program
    loads,         \* number of calls of load_locations_df so far
    locations_df,  \* the catalog returned by load_locations_df
    idx,           \* position of iterrows() in locations_df (0 = before first)
    sleeps,        \* number of time.sleep(3) calls completed
    offset,        \* load_location_df: offset
    out_df,        \* load_location_df: out_df
    location_df,   \* load_birthplaces: location_df (the value last returned)
    returns,       \* every value load_location_df has returned, in order
    consolidated,  \* load_birthplaces: consolidated
    fetches,       \* every call of scrape_birthplaces made by load_location_df
    saves,         \* every call of save_data, in order
    files,         \* the files under ./data, by file name
    \* ---- scrape_birthplaces ----
    spc,           \* position inside scrape_birthplaces
    url,           \* the URL built from the arguments
    gets,          \* number of requests.get calls
    fail,          \* which failure, if any, ended the invocation
    headers,       \* the column names read from the header row
    body,          \* the <tr> elements of tbody iterated so far
    rows_data,     \* rows_data
    sret           \* what the invocation gave its caller

dvars == <<csv, pc, loads, locations_df, idx, sleeps, offset, out_df,
           location_df, returns, consolidated, fetches, saves, files>>
svars == <<spc, url, gets, fail, headers, body, rows_data, sret>>
vars  == <<csv, pc, loads, locations_df, idx, sleeps, offset, out_df,
           location_df, returns, consolidated, fetches, saves, files,
           spc, url, gets, fail, headers, body, rows_data, sret>>

(***************************************************************************)
(* Bounds of the model.                                                    *)
(***************************************************************************)
MaxLocs == 2       \* rows in the reference file
MaxPageRows == 1   \* rows in a page handed to load_location_df
MaxRows == 2       \* <tr> elements in a scraped tbody

(***************************************************************************)
(* Numbers as pandas holds them: a value or NaN.  Every comparison with    *)
(* NaN is false.                                                           *)
(***************************************************************************)
Num(n) == [nan |-> FALSE, v |-> n]
NaN == [nan |-> TRUE, v |-> 0]
Lt(a, b) == ~a.nan /\ ~b.nan /\ a.v < b.v
Ge(a, b) == ~a.nan /\ ~b.nan /\ a.v >= b.v

PageSize == 200


(***************************************************************************)
(* Strings.  str.lower and str.replace(" ", "%20") over the strings the    *)
(* model uses.                                                             *)
(***************************************************************************)
Countries == {"USA"}
States == {"TX", "New York"}

Lower(s) ==
    CASE s = "USA_TX" -> "usa_tx"
      [] s = "USA_New York" -> "usa_new york"
      [] OTHER -> s

Replace20(s) ==
    CASE s = "New York" -> "New%20York"
      [] OTHER -> s

LocationName(row) == row.Country \o "_" \o row.State

FileName(location) ==
    "./data/nfl_players_birthplaces_" \o Lower(location) \o ".csv"

FileNames ==
    {FileName(c \o "_" \o s) : c \in Countries, s \in States}
        \cup {FileName("consolidated")}

(***************************************************************************)
(* Data frames of the driver: a sequence of rows.  A page is what          *)
(* scrape_birthplaces returned; the driver only tests df.empty and         *)
(* concatenates.                                                           *)
(***************************************************************************)
RowIds == {"r1", "r2"}
SeqsUpTo(S, n) == UNION {[1..k -> S] : k \in 0..n}
Pages == SeqsUpTo(RowIds, MaxPageRows)
Empty(df) == Len(df) = 0

NoFile == [exists |-> FALSE, df |-> <<>>]

(***************************************************************************)
(* The reference file.  A cell of the '# of Pros' column is missing, a     *)
(* number, or text that is no number.  A missing value in any other of the *)
(* six selected columns drops the row the same way, so one column stands   *)
(* for the six.                                                            *)
(***************************************************************************)
RawNA == [k |-> "na", v |-> 0]
RawText == [k |-> "str", v |-> 0]
RawNum(n) == [k |-> "num", v |-> n]
RawPros == {RawNA, RawText, RawNum(0), RawNum(50), RawNum(250)}
RawRows == [Country : Countries, State : States, Pros : RawPros]

CsvFiles ==
    {[kind |-> "absent", rows |-> <<>>], [kind |-> "nocols", rows |-> <<>>]}
        \cup {[kind |-> "ok", rows |-> r] : r \in SeqsUpTo(RawRows, MaxLocs)}

\* locations_df[[...six columns...]].dropna()
DropNa(rows) == SelectSeq(rows, LAMBDA r : r.Pros.k # "na")

\* pd.to_numeric(..., errors='coerce')
ToNumeric(raw) == IF raw.k = "num" THEN Num(raw.v) ELSE NaN

\* clean_dataframe on the catalog: '# of Pros' is in numeric_columns
CleanLocations(rows) ==
    [i \in 1..Len(rows) |->
        [Country |-> rows[i].Country, State |-> rows[i].State,
         Pros |-> ToNumeric(rows[i].Pros)]]

\* sort_values(by='# of Pros', ascending=False): NaN last, ties in any order
\* (the default sort is not stable)
Before(a, b) == b.nan \/ (~a.nan /\ a.v >= b.v)
SortValues(rows) ==
    LET n == Len(rows)
        perms == {f \in [1..n -> 1..n] : \A i, j \in 1..n : f[i] = f[j] => i = j}
        sorted(f) == \A i \in 1..n : \A j \in 1..n :
                        i < j => Before(rows[f[i]].Pros, rows[f[j]].Pros)
    IN {[i \in 1..n |-> rows[f[i]]] : f \in {g \in perms : sorted(g)}}

(***************************************************************************)
(* save_data(df, location): df.to_csv(filename) replaces the file.         *)
(***************************************************************************)
save_data(fs, df, location) ==
    [fs EXCEPT ![FileName(location)] = [exists |-> TRUE, df |-> df]]

SaveCall(by, df, location) ==
    [by |-> by, file |-> FileName(location), df |-> df]

(***************************************************************************)
(* load_location_df: the two tests that steer it.                          *)
(***************************************************************************)
\* (the test written as "< 0")
SkipLocationBelowZero(n) == Lt(n, Num(0))

\* if _number_of_pros < 1: ... return pd.DataFrame()
SkipLocation(n) == Lt(n, Num(1))

\* (the test written as ">= 0")
ShouldFetchFromZero(o) == o >= 0

\* if offset > 0:
ShouldFetch(o) == o > 0

\* the row load_location_df is working on
Row == locations_df[idx]

(***************************************************************************)
(* Initial state: the program has not started; the reference file is any   *)
(* of CsvFiles; ./data holds no file of the program yet.                   *)
(***************************************************************************)
ScrapeIdle ==
    /\ spc = "idle"
    /\ url = [country |-> "", state |-> "", hasOffset |-> FALSE, offset |-> 0]
    /\ gets = 0
    /\ fail = "none"
    /\ headers = <<>>
    /\ body = <<>>
    /\ rows_data = <<>>
    /\ sret = [kind |-> "none", columns |-> <<>>, rows |-> <<>>]

DriverIdle ==
    /\ pc = "start"
    /\ loads = 0
    /\ locations_df = <<>>
    /\ idx = 0
    /\ sleeps = 0
    /\ offset = 0
    /\ out_df = <<>>
    /\ location_df = <<>>
    /\ returns = <<>>
    /\ consolidated = <<>>
    /\ fetches = <<>>
    /\ saves = <<>>
    /\ files = [f \in FileNames |-> NoFile]

Init ==
    /\ csv \in CsvFiles
    /\ DriverIdle
    /\ ScrapeIdle

(***************************************************************************)
(* load_birthplaces, line 203: locations_df = load_locations_df().         *)
(* A missing file is caught (FileNotFoundError) and gives an empty frame;  *)
(* a file without the selected columns raises KeyError, which nothing      *)
(* catches, so load_birthplaces ends there.                                *)
(***************************************************************************)
LoadLocations ==
    /\ pc = "start"
    /\ loads' = loads + 1
    /\ IF csv.kind = "absent"
         THEN /\ locations_df' = <<>>
              /\ pc' = "for"
         ELSE IF csv.kind = "nocols"
                THEN /\ locations_df' = locations_df
                     /\ pc' = "raised"
                ELSE /\ locations_df' \in SortValues(CleanLocations(DropNa(csv.rows)))
                     /\ pc' = "for"
    /\ UNCHANGED <<csv, idx, sleeps, offset, out_df, location_df, returns,
                   consolidated, fetches, saves, files>>
    /\ UNCHANGED svars

\* for _, row in locations_df.iterrows(): the next row; load_location_df(row)
\* is entered
ForNext ==
    /\ pc = "for"
    /\ idx < Len(locations_df)
    /\ idx' = idx + 1
    /\ pc' = "sleep"
    /\ UNCHANGED <<csv, loads, locations_df, sleeps, offset, out_df,
                   location_df, returns, consolidated, fetches, saves, files>>
    /\ UNCHANGED svars

\* time.sleep(3)
Sleep ==
    /\ pc = "sleep"
    /\ sleeps' = sleeps + 1
    /\ pc' = "check"
    /\ UNCHANGED <<csv, loads, locations_df, idx, offset, out_df,
                   location_df, returns, consolidated, fetches, saves, files>>
    /\ UNCHANGED svars

\* lines 165-170: skip a location without players, else offset = 0 and an
\* empty out_df
CheckPros ==
    /\ pc = "check"
    /\ IF SkipLocation(Row.Pros)
         THEN /\ location_df' = <<>>
              /\ returns' = Append(returns, <<>>)
              /\ pc' = "concat"
              /\ UNCHANGED <<offset, out_df>>
         ELSE /\ offset' = 0
              /\ out_df' = <<>>
              /\ pc' = "while"
              /\ UNCHANGED <<location_df, returns>>
    /\ UNCHANGED <<csv, loads, locations_df, idx, sleeps, consolidated,
                   fetches, saves, files>>
    /\ UNCHANGED svars

\* while _number_of_pros >= offset: ... return out_df
WhileTest ==
    /\ pc = "while"
    /\ IF Ge(Row.Pros, Num(offset))
         THEN /\ pc' = "body"
              /\ UNCHANGED <<location_df, returns>>
         ELSE /\ location_df' = out_df
              /\ returns' = Append(returns, out_df)
              /\ pc' = "concat"
    /\ UNCHANGED <<csv, loads, locations_df, idx, sleeps, offset, out_df,
                   consolidated, fetches, saves, files>>
    /\ UNCHANGED svars

\* lines 173-198, one pass of the loop body.  Everything, the increment of
\* offset included, is inside "if offset > 0".
LoopBody ==
    /\ pc = "body"
    /\ IF ShouldFetch(offset)
         THEN \E df \in Pages :
                /\ fetches' = Append(fetches,
                                [idx |-> idx,
                                 country |-> Replace20(Row.Country),
                                 state |-> Replace20(Row.State),
                                 offset |-> offset])
                /\ IF Empty(df)
                     THEN \* break; return out_df
                          /\ location_df' = out_df
                          /\ returns' = Append(returns, out_df)
                          /\ pc' = "concat"
                          /\ UNCHANGED <<offset, out_df, saves, files>>
                     ELSE /\ out_df' = out_df \o df
                          /\ files' = save_data(files, df, LocationName(Row))
                          /\ saves' = Append(saves, SaveCall(idx, df, LocationName(Row)))
                          /\ offset' = offset + PageSize
                          /\ pc' = "while"
                          /\ UNCHANGED <<location_df, returns>>
         ELSE /\ pc' = "while"
              /\ UNCHANGED <<offset, out_df, location_df, returns, fetches,
                             saves, files>>
    /\ UNCHANGED <<csv, loads, locations_df, idx, sleeps, consolidated>>
    /\ UNCHANGED svars

\* consolidated = pd.concat([consolidated, location_df], ignore_index=True)
Concat ==
    /\ pc = "concat"
    /\ consolidated' = consolidated \o location_df
    /\ pc' = "for"
    /\ UNCHANGED <<csv, loads, locations_df, idx, sleeps, offset, out_df,
                   location_df, returns, fetches, saves, files>>
    /\ UNCHANGED svars

\* after the loop: save_data(consolidated, location="consolidated")
SaveConsolidated ==
    /\ pc = "for"
    /\ idx = Len(locations_df)
    /\ files' = save_data(files, consolidated, "consolidated")
    /\ saves' = Append(saves, SaveCall(0, consolidated, "consolidated"))
    /\ pc' = "done"
    /\ UNCHANGED <<csv, loads, locations_df, idx, sleeps, offset, out_df,
                   location_df, returns, consolidated, fetches>>
    /\ UNCHANGED svars

Next ==
    \/ LoadLocations
    \/ ForNext
    \/ Sleep
    \/ CheckPros
    \/ WhileTest
    \/ LoopBody
    \/ Concat
    \/ SaveConsolidated

Spec == Init /\ [][Next]_vars

\* The program is one thread that always takes its next step.
FairSpec == Init /\ [][Next]_vars /\ WF_vars(Next)

(***************************************************************************)
(* scrape_birthplaces(country, state, offset).                             *)
(*                                                                         *)
(* The response is read as the code reads it: the outcome of the request,  *)
(* then the table, its header row, its body and the body's rows one by     *)
(* one.  A cell is <td>/<th> with or without an <a>; atext is the text of  *)
(* the <a>, text the text of the whole cell.                               *)
(***************************************************************************)
Widths == {0, 1, 2}
SeqsOfWidth(S) == UNION {[1..k -> S] : k \in Widths}

StatusCodes == {200, 404, 500}
Offsets == {0, PageSize}

HeaderCells ==
    {[hasStat |-> TRUE, stat |-> "g", text |-> "G"],
     [hasStat |-> FALSE, stat |-> "", text |-> "Player"]}
HeaderRows == SeqsOfWidth(HeaderCells)

Cells ==
    {[a |-> FALSE, atext |-> "", text |-> ""],
     [a |-> FALSE, atext |-> "", text |-> "7"],
     [a |-> TRUE, atext |-> "x", text |-> "x+"]}

\* a <tr> of tbody: th = it contains a <th>; cls = its class attribute
\* contains "thead"
TableRows ==
    {r \in [th : BOOLEAN, cls : BOOLEAN, cells : SeqsOfWidth(Cells)] :
        r.th => r.cells # <<>>}

NumericColumns ==
    {"year_min", "year_max", "all_pros_first_team", "pro_bowls",
     "years_as_primary_starter", "career_av", "g", "pass_cmp", "pass_att",
     "pass_yds", "pass_td", "pass_long", "pass_int", "pass_sacked",
     "pass_sacked_yds", "rush_att", "rush_yds", "rush_td", "rush_long",
     "rec", "rec_yds", "rec_td", "rec_long",
     "# of Pros", "# Active", "# of HOF", "G"}

\* values of a scraped frame that are absent: None and NaN
Absent == {"None", "NaN"}

EmptyFrame == [kind |-> "df", columns |-> <<>>, rows |-> <<>>]
Raised == [kind |-> "exc", columns |-> <<>>, rows |-> <<>>]
FrameEmpty(f) == Len(f.rows) = 0 \/ Len(f.columns) = 0

\* (only "except requests.RequestException": anything else propagates)
HandleRequestOnly(exc) ==
    CASE exc = "RequestException" -> EmptyFrame
      [] OTHER -> Raised

\* except requests.RequestException ... except Exception: both print and
\* return pd.DataFrame()
Handle(exc) ==
    CASE exc = "RequestException" -> EmptyFrame
      [] OTHER -> EmptyFrame

\* response.raise_for_status()
RaisesForStatus(status) == status >= 400

\* th.get('data-stat', th.get_text(strip=True))
HeaderName(th) == IF th.hasStat THEN th.stat ELSE th.text

\* the text of the <a> if the cell has one, else the text of the cell
ExtractText(cell) == IF cell.a THEN cell.atext ELSE cell.text

\* (the conversion left out)
KeepEmpty(text) == text

\* if text == '': text = None
NoneIfEmpty(text) == IF text = "" THEN "None" ELSE text

\* if row.find('th') and 'thead' in str(row.get('class', [])): continue
SkipHeaderRow(row) == row.th /\ row.cls

\* row_data of one <tr>
RowData(row) ==
    [j \in 1..Len(row.cells) |-> NoneIfEmpty(ExtractText(row.cells[j]))]

\* pd.to_numeric(..., errors='coerce') on one value of a scraped column
Coerce(v) == IF v = "7" THEN "#7" ELSE "NaN"

MaxWidth(rows) ==
    CHOOSE w \in {Len(rows[i]) : i \in 1..Len(rows)} :
        \A i \in 1..Len(rows) : Len(rows[i]) <= w

Occurrences(cols, c) == Cardinality({j \in 1..Len(cols) : cols[j] = c})

\* pd.DataFrame(rows_data, columns=headers) raises ValueError when the
\* widest row and the header row differ in length
FrameError(rows, cols) == rows # <<>> /\ MaxWidth(rows) # Len(cols)

\* clean_dataframe raises TypeError when a numeric column name occurs twice:
\* df[col] is then a frame, which pd.to_numeric refuses
CleanError(cols) ==
    \E j \in 1..Len(cols) :
        cols[j] \in NumericColumns /\ Occurrences(cols, cols[j]) > 1

\* pd.DataFrame(rows_data, columns=headers): short rows are padded with None
DataFrame(rows, cols) ==
    [kind |-> "df", columns |-> cols,
     rows |-> [i \in 1..Len(rows) |->
                 [j \in 1..Len(cols) |->
                     IF j <= Len(rows[i]) THEN rows[i][j] ELSE "None"]]]

clean_dataframe(df) ==
    [df EXCEPT !.rows =
        [i \in 1..Len(df.rows) |->
            [j \in 1..Len(df.columns) |->
                IF df.columns[j] \in NumericColumns
                  THEN Coerce(df.rows[i][j])
                  ELSE df.rows[i][j]]]]

ScrapeInit ==
    /\ csv = [kind |-> "absent", rows |-> <<>>]
    /\ DriverIdle
    /\ ScrapeIdle

\* lines 20-22: the URL
ScrapeCall ==
    /\ spc = "idle"
    /\ \E o \in Offsets :
         url' = [country |-> Replace20("USA"), state |-> Replace20("New York"),
                 hasOffset |-> (o > 0), offset |-> IF o > 0 THEN o ELSE 0]
    /\ spc' = "get"
    /\ UNCHANGED <<gets, fail, headers, body, rows_data, sret>>
    /\ UNCHANGED dvars

\* return from the try block or from a handler
Return(why, value) ==
    /\ fail' = why
    /\ sret' = value
    /\ spc' = "returned"

\* lines 32-33: requests.get and raise_for_status
HttpGet ==
    /\ spc = "get"
    /\ gets' = gets + 1
    /\ \E connected \in BOOLEAN, status \in StatusCodes :
         IF ~connected
           THEN Return("network", Handle("RequestException"))
           ELSE IF RaisesForStatus(status)
                  THEN Return("status", Handle("RequestException"))
                  ELSE /\ spc' = "table"
                       /\ UNCHANGED <<fail, sret>>
    /\ UNCHANGED <<url, headers, body, rows_data>>
    /\ UNCHANGED dvars

\* lines 36-43: soup.find('table', {'id': 'birthplaces'})
FindTable ==
    /\ spc = "table"
    /\ \E found \in BOOLEAN :
         IF ~found
           THEN Return("notable", EmptyFrame)
           ELSE /\ spc' = "thead"
                /\ UNCHANGED <<fail, sret>>
    /\ UNCHANGED <<url, gets, headers, body, rows_data>>
    /\ UNCHANGED dvars

\* lines 46-62: the header row
ReadHeader ==
    /\ spc = "thead"
    /\ \E thead \in BOOLEAN, tr \in BOOLEAN, ths \in HeaderRows :
         IF ~thead
           THEN /\ Return("nothead", EmptyFrame)
                /\ UNCHANGED headers
           ELSE IF ~tr
                  THEN /\ Return("noheadrow", EmptyFrame)
                       /\ headers' = <<>>
                  ELSE /\ headers' = [j \in 1..Len(ths) |-> HeaderName(ths[j])]
                       /\ spc' = "tbody"
                       /\ UNCHANGED <<fail, sret>>
    /\ UNCHANGED <<url, gets, body, rows_data>>
    /\ UNCHANGED dvars

\* lines 65-68, 90-92: table.find('tbody')
FindBody ==
    /\ spc = "tbody"
    /\ \E found \in BOOLEAN :
         IF ~found
           THEN Return("notbody", EmptyFrame)
           ELSE /\ spc' = "rows"
                /\ UNCHANGED <<fail, sret>>
    /\ rows_data' = <<>>
    /\ UNCHANGED <<url, gets, headers, body>>
    /\ UNCHANGED dvars

\* lines 69-89: one <tr> of tbody
ReadRow ==
    /\ spc = "rows"
    /\ Len(body) < MaxRows
    /\ \E row \in TableRows :
         /\ body' = Append(body, row)
         /\ rows_data' =
              IF SkipHeaderRow(row) THEN rows_data
              ELSE IF RowData(row) # <<>> THEN Append(rows_data, RowData(row))
              ELSE rows_data
    /\ UNCHANGED <<spc, url, gets, fail, headers, sret>>
    /\ UNCHANGED dvars

\* lines 95-101: the frame, clean_dataframe, return df; an exception of
\* either goes to "except Exception"
BuildFrame ==
    /\ spc = "rows"
    /\ IF FrameError(rows_data, headers) \/ CleanError(headers)
         THEN Return("parse", Handle("Exception"))
         ELSE Return("none", clean_dataframe(DataFrame(rows_data, headers)))
    /\ UNCHANGED <<url, gets, headers, body, rows_data>>
    /\ UNCHANGED dvars

ScrapeNext ==
    \/ ScrapeCall
    \/ HttpGet
    \/ FindTable
    \/ ReadHeader
    \/ FindBody
    \/ ReadRow
    \/ BuildFrame

ScrapeSpec == ScrapeInit /\ [][ScrapeNext]_vars

(***************************************************************************)
(* Properties of the driver.                                               *)
(***************************************************************************)
InLocation == pc \in {"sleep", "check", "while", "body", "concat"}

FetchesOf(i) == SelectSeq(fetches, LAMBDA f : f.idx = i)
SavesBy(i) == SelectSeq(saves, LAMBDA c : c.by = i)

RECURSIVE Flatten(_)
Flatten(dfs) == IF dfs = <<>> THEN <<>> ELSE Head(dfs) \o Flatten(Tail(dfs))

\* C1: every pass of the loop body that goes back to the loop test (no
\* empty page, no break) has advanced offset by 200, the pass at offset 0
\* included.
C1_OffsetAdvancesEveryPass ==
    [][(pc = "body" /\ pc' = "while") => offset' = offset + PageSize]_vars

\* C2: load_location_df terminates: once entered for a location record it
\* eventually returns its accumulator to load_birthplaces.
C2_LocationTerminates == (pc = "sleep") ~> (pc = "concat")

\* C3: every fetch load_location_df has issued carried an offset greater
\* than 0, a multiple of 200 and not greater than the location's
\* known_pro_count; so none carried offset 0.
C3_NoFetchAtOffsetZero ==
    \A i \in 1..Len(fetches) :
        /\ fetches[i].offset > 0
        /\ fetches[i].offset % PageSize = 0
        /\ Ge(locations_df[fetches[i].idx].Pros, Num(fetches[i].offset))

\* the loop body is running at offset 0 for a location with players and has
\* fetched nothing
C3_Witness ==
    /\ pc = "body"
    /\ offset = 0
    /\ Ge(Row.Pros, Num(1))
    /\ FetchesOf(idx) = <<>>

\* C4: for a location whose known_pro_count is < 1, load_location_df sleeps
\* first, never enters the pagination loop, issues no fetch, writes no
\* file, and returns an empty result.
C4_NoPlayersSkipped ==
    (InLocation /\ Lt(Row.Pros, Num(1))) =>
        /\ pc \notin {"while", "body"}
        /\ (pc = "sleep" => sleeps = idx - 1 /\ Len(returns) = idx - 1)
        /\ (pc \in {"check", "concat"} => sleeps = idx)
        /\ (pc = "concat" => location_df = <<>> /\ returns[idx] = <<>>)
        /\ FetchesOf(idx) = <<>>
        /\ SavesBy(idx) = <<>>

\* a location with 0 players has been skipped after its sleep
C4_Witness ==
    /\ pc = "concat"
    /\ Row.Pros = Num(0)
    /\ sleeps = idx
    /\ location_df = <<>>

\* C7: when the reference file is absent or lacks the expected columns,
\* load_locations_df returns an empty result and raises nothing.
C7_CatalogFailsSoftly ==
    (csv.kind # "ok" /\ pc # "start") => (pc # "raised" /\ locations_df = <<>>)

\* C8: once the catalog is loaded, load_birthplaces runs load_location_df
\* for each location in catalog order and then writes the consolidated file
\* exactly once, holding the concatenation of the returned accumulators.
C8_ConsolidatedWritten ==
    (pc = "for") ~>
        /\ pc = "done"
        /\ loads = 1
        /\ Len(returns) = Len(locations_df)
        /\ SavesBy(0) = <<SaveCall(0, Flatten(returns), "consolidated")>>
        /\ files[FileName("consolidated")].df = Flatten(returns)
        /\ Len(files[FileName("consolidated")].df) =
             Len(Flatten(returns))

(***************************************************************************)
(* Properties of the scraper.                                              *)
(***************************************************************************)
\* C6: one invocation of scrape_birthplaces issues exactly one HTTP GET and
\* hands its caller a frame, never an exception; after a network error, a
\* bad status, a missing table, header or body, or a parsing error the
\* frame is empty.
C6_OneGetNoException ==
    /\ sret.kind # "exc"
    /\ gets <= 1
    /\ (spc \notin {"idle", "get"} => gets = 1)
    /\ (spc = "returned" => sret.kind = "df")
    /\ (spc = "returned" /\ fail # "none" => sret = EmptyFrame)

\* the frame could not be built from the rows read, and the caller got an
\* empty frame after the one request
C6_Witness ==
    /\ spc = "returned"
    /\ fail = "parse"
    /\ gets = 1
    /\ body # <<>>
    /\ sret = EmptyFrame

\* a table with a header row of distinct column names and a body whose rows
\* each have as many cells as the header row, read to its end
WellFormedTable ==
    /\ spc = "returned"
    /\ fail \in {"none", "parse"}
    /\ headers # <<>>
    /\ \A j, k \in 1..Len(headers) : headers[j] = headers[k] => j = k
    /\ \A i \in 1..Len(body) : Len(body[i].cells) = Len(headers)

\* the output row at position i comes from the table row r: same cells in
\* the same order, empty text absent
RowFrom(out, r) ==
    /\ Len(out) = Len(r.cells)
    /\ \A j \in 1..Len(r.cells) :
         LET t == ExtractText(r.cells[j]) IN
           /\ out[j] # ""
           /\ (t = "" => out[j] \in Absent)
           /\ (t # "" /\ headers[j] \notin NumericColumns => out[j] = t)

\* C9 as stated: for a well-formed table the output has one row per body
\* row, in table order, and a cell with empty text is absent, never "".
C9_RowPerBodyRow ==
    WellFormedTable =>
        /\ Len(sret.rows) = Len(body)
        /\ \A i \in 1..Len(body) : RowFrom(sret.rows[i], body[i])

\* the body rows that are not header rows repeated inside tbody
DataRows == SelectSeq(body, LAMBDA r : ~(r.th /\ r.cls))

\* C9 amended: for a well-formed table the output has one row per body row
\* that is not a repeated header row (a <th> in it and "thead" in its
\* class), in table order, and a cell with empty text is absent, never "".
C9_RowPerDataRow ==
    WellFormedTable =>
        /\ Len(sret.rows) = Len(DataRows)
        /\ \A i \in 1..Len(DataRows) : RowFrom(sret.rows[i], DataRows[i])

\* a repeated header row was dropped and the data row after it, which has a
\* cell without text, came out as the only row
C9_Witness ==
    /\ WellFormedTable
    /\ Len(body) = 2
    /\ body[1].th /\ body[1].cls
    /\ ~body[2].th
    /\ \E j \in 1..Len(body[2].cells) : ExtractText(body[2].cells[j]) = ""
    /\ Len(sret.rows) = 1

====
